---- MODULE Spec2Model ----
(***************************************************************************)
(* Model of ta_simulation.c: one TA thread, NUM_STUDENTS student threads   *)
(* and main, coordinating through four POSIX semaphores, one mutex and the *)
(* counter num_students_in_chairs.  Every statement of the source that     *)
(* touches shared state is one atomic step of the thread that executes it. *)
(***************************************************************************)
EXTENDS Integers, Sequences, FiniteSets, TLC

\* Largest population and largest waiting room explored.
MaxStudents == 3
MaxChairs == 3

VARIABLES
    NUM_STUDENTS,               \* configuration: number of student threads
    MAX_CHAIRS,                 \* configuration: number of waiting chairs
    waiting_room_chairs_sem,    \* semaphore values
    student_present_for_ta_sem,
    ta_ready_for_student_sem,
    consultation_finished_sem,
    count_mutex,                \* 0 = unlocked, s = held by student s
    num_students_in_chairs,
    pc,                         \* position of every student thread
    ta_pc,                      \* position of the TA thread
    main_pc,                    \* position of main
    main_i,                     \* loop index i of main
    destroyed,                  \* semaphores and mutex destroyed by main
    posts,                      \* history: units posted / consumed by the TA
    summoned                    \* history: students whose summon wait has returned and whose
                                \* completion wait has not, oldest first

vars == <<NUM_STUDENTS, MAX_CHAIRS, waiting_room_chairs_sem,
          student_present_for_ta_sem, ta_ready_for_student_sem,
          consultation_finished_sem, count_mutex, num_students_in_chairs,
          pc, ta_pc, main_pc, main_i, destroyed, posts, summoned>>

shared == <<waiting_room_chairs_sem, student_present_for_ta_sem,
            ta_ready_for_student_sem, consultation_finished_sem,
            count_mutex, num_students_in_chairs>>

config == <<NUM_STUDENTS, MAX_CHAIRS>>

Students == 1..NUM_STUDENTS

----------------------------------------------------------------------------
\* Primitives

SemCanWait_ge(v) == v >= 0

\* sem_wait returns only when the value is positive, and decrements it.
SemCanWait(v) == v > 0

SemWait(v) == v - 1

SemPost_lost(v) == v


SemPost_double(v) == v + 2

\* sem_post increments the value.
SemPost(v) == v + 1

SemInitChairs_extra(c) == c + 1

\* sem_init(&waiting_room_chairs_sem, 0, MAX_CHAIRS)
SemInitChairs(c) == c

AdmissionOK_le(occ, c) == occ <= c

AdmissionOK_strict(occ, c) == occ + 1 < c

\* if (num_students_in_chairs < MAX_CHAIRS)
AdmissionOK(occ, c) == occ < c

Terminal == {"served", "balked"}

\* The student's wait on ta_ready_for_student_sem has returned and its wait
\* on consultation_finished_sem has not.
InConsultation(s) ==
    pc[s] \in {"post_chairs", "lock2", "dec", "unlock2", "wait_completion"}

\* The student's sem_wait on waiting_room_chairs_sem has returned and its
\* sem_post has not been executed.
HoldsChair(s) ==
    pc[s] \in {"unlock1", "post_presence", "wait_summon", "post_chairs"}

Remove(q, s) == SelectSeq(q, LAMBDA x : x # s)

----------------------------------------------------------------------------
\* Initial state: globals initialised, the four sem_init and the mutex init
\* of main done, no thread created yet.
Init ==
    /\ NUM_STUDENTS \in 0..MaxStudents
    /\ MAX_CHAIRS \in 0..MaxChairs
    /\ waiting_room_chairs_sem = SemInitChairs(MAX_CHAIRS)
    /\ student_present_for_ta_sem = 0
    /\ ta_ready_for_student_sem = 0
    /\ consultation_finished_sem = 0
    /\ count_mutex = 0
    /\ num_students_in_chairs = 0
    /\ pc = [s \in 1..NUM_STUDENTS |-> "not_created"]
    /\ ta_pc = "not_created"
    /\ main_pc = "create_ta"
    /\ main_i = 0
    /\ destroyed = FALSE
    /\ posts = [presence |-> 0, taken |-> 0, summon |-> 0, completion |-> 0]
    /\ summoned = <<>>

----------------------------------------------------------------------------
\* Student thread

\* free(student_id_ptr); sleep(random_int(...)); printf("Arrived")
StudentArrive(s) ==
    /\ pc[s] = "arrive"
    /\ pc' = [pc EXCEPT ![s] = "lock1"]
    /\ UNCHANGED <<config, shared, ta_pc, main_pc, main_i, destroyed, posts,
                   summoned>>


StudentLock_nolock(s) ==
    /\ pc[s] = "lock1"
    /\ count_mutex' = s
    /\ pc' = [pc EXCEPT ![s] = "check"]
    /\ UNCHANGED <<config, waiting_room_chairs_sem,
                   student_present_for_ta_sem, ta_ready_for_student_sem,
                   consultation_finished_sem, num_students_in_chairs, ta_pc,
                   main_pc, main_i, destroyed, posts, summoned>>

\* pthread_mutex_lock(&count_mutex) before the admission test
StudentLock(s) ==
    /\ pc[s] = "lock1"
    /\ count_mutex = 0
    /\ count_mutex' = s
    /\ pc' = [pc EXCEPT ![s] = "check"]
    /\ UNCHANGED <<config, waiting_room_chairs_sem,
                   student_present_for_ta_sem, ta_ready_for_student_sem,
                   consultation_finished_sem, num_students_in_chairs, ta_pc,
                   main_pc, main_i, destroyed, posts, summoned>>

\* if (num_students_in_chairs < MAX_CHAIRS) { num_students_in_chairs++; ... } else ...
StudentAdmit(s) ==
    /\ pc[s] = "check"
    /\ IF AdmissionOK(num_students_in_chairs, MAX_CHAIRS)
       THEN /\ num_students_in_chairs' = num_students_in_chairs + 1
            /\ pc' = [pc EXCEPT ![s] = "take_chair"]
       ELSE /\ num_students_in_chairs' = num_students_in_chairs
            /\ pc' = [pc EXCEPT ![s] = "unlock_balk"]
    /\ UNCHANGED <<config, waiting_room_chairs_sem,
                   student_present_for_ta_sem, ta_ready_for_student_sem,
                   consultation_finished_sem, count_mutex, ta_pc, main_pc,
                   main_i, destroyed, posts, summoned>>

\* sem_wait(&waiting_room_chairs_sem), executed while holding count_mutex
StudentTakeChair(s) ==
    /\ pc[s] = "take_chair"
    /\ SemCanWait(waiting_room_chairs_sem)
    /\ waiting_room_chairs_sem' = SemWait(waiting_room_chairs_sem)
    /\ pc' = [pc EXCEPT ![s] = "unlock1"]
    /\ UNCHANGED <<config, student_present_for_ta_sem,
                   ta_ready_for_student_sem, consultation_finished_sem,
                   count_mutex, num_students_in_chairs, ta_pc, main_pc,
                   main_i, destroyed, posts, summoned>>

\* printf("Took a chair"); pthread_mutex_unlock(&count_mutex)
StudentUnlockSeated(s) ==
    /\ pc[s] = "unlock1"
    /\ count_mutex' = 0
    /\ pc' = [pc EXCEPT ![s] = "post_presence"]
    /\ UNCHANGED <<config, waiting_room_chairs_sem,
                   student_present_for_ta_sem, ta_ready_for_student_sem,
                   consultation_finished_sem, num_students_in_chairs, ta_pc,
                   main_pc, main_i, destroyed, posts, summoned>>

\* sem_post(&student_present_for_ta_sem)
StudentPostPresence(s) ==
    /\ pc[s] = "post_presence"
    /\ student_present_for_ta_sem' = SemPost(student_present_for_ta_sem)
    /\ posts' = [posts EXCEPT !.presence = @ + 1]
    /\ pc' = [pc EXCEPT ![s] = "wait_summon"]
    /\ UNCHANGED <<config, waiting_room_chairs_sem, ta_ready_for_student_sem,
                   consultation_finished_sem, count_mutex,
                   num_students_in_chairs, ta_pc, main_pc, main_i, destroyed,
                   summoned>>

\* sem_wait(&ta_ready_for_student_sem)
StudentWaitSummon(s) ==
    /\ pc[s] = "wait_summon"
    /\ SemCanWait(ta_ready_for_student_sem)
    /\ ta_ready_for_student_sem' = SemWait(ta_ready_for_student_sem)
    /\ summoned' = Append(summoned, s)
    /\ pc' = [pc EXCEPT ![s] = "post_chairs"]
    /\ UNCHANGED <<config, waiting_room_chairs_sem,
                   student_present_for_ta_sem, consultation_finished_sem,
                   count_mutex, num_students_in_chairs, ta_pc, main_pc,
                   main_i, destroyed, posts>>


StudentLeaveChair_keep(s) ==
    /\ pc[s] = "post_chairs"
    /\ pc' = [pc EXCEPT ![s] = "lock2"]
    /\ UNCHANGED <<config, shared, ta_pc, main_pc, main_i, destroyed, posts,
                   summoned>>

\* sem_post(&waiting_room_chairs_sem)
StudentLeaveChair(s) ==
    /\ pc[s] = "post_chairs"
    /\ waiting_room_chairs_sem' = SemPost(waiting_room_chairs_sem)
    /\ pc' = [pc EXCEPT ![s] = "lock2"]
    /\ UNCHANGED <<config, student_present_for_ta_sem,
                   ta_ready_for_student_sem, consultation_finished_sem,
                   count_mutex, num_students_in_chairs, ta_pc, main_pc,
                   main_i, destroyed, posts, summoned>>

\* pthread_mutex_lock(&count_mutex) before the decrement
StudentLockLeave(s) ==
    /\ pc[s] = "lock2"
    /\ count_mutex = 0
    /\ count_mutex' = s
    /\ pc' = [pc EXCEPT ![s] = "dec"]
    /\ UNCHANGED <<config, waiting_room_chairs_sem,
                   student_present_for_ta_sem, ta_ready_for_student_sem,
                   consultation_finished_sem, num_students_in_chairs, ta_pc,
                   main_pc, main_i, destroyed, posts, summoned>>


StudentDecrement_skip(s) ==
    /\ pc[s] = "dec"
    /\ num_students_in_chairs' = num_students_in_chairs
    /\ pc' = [pc EXCEPT ![s] = "unlock2"]
    /\ UNCHANGED <<config, waiting_room_chairs_sem,
                   student_present_for_ta_sem, ta_ready_for_student_sem,
                   consultation_finished_sem, count_mutex, ta_pc, main_pc,
                   main_i, destroyed, posts, summoned>>

\* num_students_in_chairs--
StudentDecrement(s) ==
    /\ pc[s] = "dec"
    /\ num_students_in_chairs' = num_students_in_chairs - 1
    /\ pc' = [pc EXCEPT ![s] = "unlock2"]
    /\ UNCHANGED <<config, waiting_room_chairs_sem,
                   student_present_for_ta_sem, ta_ready_for_student_sem,
                   consultation_finished_sem, count_mutex, ta_pc, main_pc,
                   main_i, destroyed, posts, summoned>>

\* pthread_mutex_unlock(&count_mutex); printf("Consulting with TA")
StudentUnlockLeave(s) ==
    /\ pc[s] = "unlock2"
    /\ count_mutex' = 0
    /\ pc' = [pc EXCEPT ![s] = "wait_completion"]
    /\ UNCHANGED <<config, waiting_room_chairs_sem,
                   student_present_for_ta_sem, ta_ready_for_student_sem,
                   consultation_finished_sem, num_students_in_chairs, ta_pc,
                   main_pc, main_i, destroyed, posts, summoned>>

\* sem_wait(&consultation_finished_sem); printf("Consultation finished"); pthread_exit
StudentWaitCompletion(s) ==
    /\ pc[s] = "wait_completion"
    /\ SemCanWait(consultation_finished_sem)
    /\ consultation_finished_sem' = SemWait(consultation_finished_sem)
    /\ summoned' = Remove(summoned, s)
    /\ pc' = [pc EXCEPT ![s] = "served"]
    /\ UNCHANGED <<config, waiting_room_chairs_sem,
                   student_present_for_ta_sem, ta_ready_for_student_sem,
                   count_mutex, num_students_in_chairs, ta_pc, main_pc,
                   main_i, destroyed, posts>>


StudentBalk_release(s) ==
    /\ pc[s] = "unlock_balk"
    /\ count_mutex' = 0
    /\ waiting_room_chairs_sem' = SemPost(waiting_room_chairs_sem)
    /\ pc' = [pc EXCEPT ![s] = "balked"]
    /\ UNCHANGED <<config, student_present_for_ta_sem,
                   ta_ready_for_student_sem, consultation_finished_sem,
                   num_students_in_chairs, ta_pc, main_pc, main_i, destroyed,
                   posts, summoned>>

\* else branch: pthread_mutex_unlock(&count_mutex); printf("No chairs"); pthread_exit
StudentBalk(s) ==
    /\ pc[s] = "unlock_balk"
    /\ count_mutex' = 0
    /\ pc' = [pc EXCEPT ![s] = "balked"]
    /\ UNCHANGED <<config, waiting_room_chairs_sem,
                   student_present_for_ta_sem, ta_ready_for_student_sem,
                   consultation_finished_sem, num_students_in_chairs, ta_pc,
                   main_pc, main_i, destroyed, posts, summoned>>

StudentStep(s) ==
    \/ StudentArrive(s)
    \/ StudentLock(s)
    \/ StudentAdmit(s)
    \/ StudentTakeChair(s)
    \/ StudentUnlockSeated(s)
    \/ StudentPostPresence(s)
    \/ StudentWaitSummon(s)
    \/ StudentLeaveChair(s)
    \/ StudentLockLeave(s)
    \/ StudentDecrement(s)
    \/ StudentUnlockLeave(s)
    \/ StudentWaitCompletion(s)
    \/ StudentBalk(s)

----------------------------------------------------------------------------
\* TA thread.  The threads of the process stop when main returns.

\* printf("Checking for students or going to sleep"); the TA enters
\* sem_wait(&student_present_for_ta_sem)
TaCheckForStudents ==
    /\ ta_pc = "loop"
    /\ main_pc # "exited"
    /\ ta_pc' = "wait_presence"
    /\ UNCHANGED <<config, shared, pc, main_pc, main_i, destroyed, posts,
                   summoned>>

\* sem_wait(&student_present_for_ta_sem) returns
TaWaitPresence ==
    /\ ta_pc = "wait_presence"
    /\ main_pc # "exited"
    /\ SemCanWait(student_present_for_ta_sem)
    /\ student_present_for_ta_sem' = SemWait(student_present_for_ta_sem)
    /\ posts' = [posts EXCEPT !.taken = @ + 1]
    /\ ta_pc' = "post_summon"
    /\ UNCHANGED <<config, waiting_room_chairs_sem, ta_ready_for_student_sem,
                   consultation_finished_sem, count_mutex,
                   num_students_in_chairs, pc, main_pc, main_i, destroyed,
                   summoned>>

\* sem_post(&ta_ready_for_student_sem)
TaPostSummon ==
    /\ ta_pc = "post_summon"
    /\ main_pc # "exited"
    /\ ta_ready_for_student_sem' = SemPost(ta_ready_for_student_sem)
    /\ posts' = [posts EXCEPT !.summon = @ + 1]
    /\ ta_pc' = "help"
    /\ UNCHANGED <<config, waiting_room_chairs_sem,
                   student_present_for_ta_sem, consultation_finished_sem,
                   count_mutex, num_students_in_chairs, pc, main_pc, main_i,
                   destroyed, summoned>>

\* help_duration = random_int(...); sleep(help_duration)
TaHelp ==
    /\ ta_pc = "help"
    /\ main_pc # "exited"
    /\ ta_pc' = "post_completion"
    /\ UNCHANGED <<config, shared, pc, main_pc, main_i, destroyed, posts,
                   summoned>>

\* sem_post(&consultation_finished_sem); loop
TaPostCompletion ==
    /\ ta_pc = "post_completion"
    /\ main_pc # "exited"
    /\ consultation_finished_sem' = SemPost(consultation_finished_sem)
    /\ posts' = [posts EXCEPT !.completion = @ + 1]
    /\ ta_pc' = "loop"
    /\ UNCHANGED <<config, waiting_room_chairs_sem,
                   student_present_for_ta_sem, ta_ready_for_student_sem,
                   count_mutex, num_students_in_chairs, pc, main_pc, main_i,
                   destroyed, summoned>>

TaStep ==
    \/ TaCheckForStudents
    \/ TaWaitPresence
    \/ TaPostSummon
    \/ TaHelp
    \/ TaPostCompletion

----------------------------------------------------------------------------
\* main

\* pthread_create(&ta_thread, NULL, ta_thread_func, NULL)
MainCreateTa ==
    /\ main_pc = "create_ta"
    /\ ta_pc' = "loop"
    /\ main_pc' = "create_students"
    /\ main_i' = 0
    /\ UNCHANGED <<config, shared, pc, destroyed, posts, summoned>>

\* for (i = 0; i < NUM_STUDENTS; i++) pthread_create(&student_threads[i], ...)
MainCreateStudent ==
    /\ main_pc = "create_students"
    /\ main_i < NUM_STUDENTS
    /\ pc' = [pc EXCEPT ![main_i + 1] = "arrive"]
    /\ main_i' = main_i + 1
    /\ UNCHANGED <<config, shared, ta_pc, main_pc, destroyed, posts,
                   summoned>>

\* creation loop exit, i = 0 of the join loop
MainEndCreate ==
    /\ main_pc = "create_students"
    /\ main_i = NUM_STUDENTS
    /\ main_pc' = "join"
    /\ main_i' = 0
    /\ UNCHANGED <<config, shared, pc, ta_pc, destroyed, posts, summoned>>

\* pthread_join(student_threads[i], NULL) returns once thread i has exited
MainJoin ==
    /\ main_pc = "join"
    /\ main_i < NUM_STUDENTS
    /\ pc[main_i + 1] \in Terminal
    /\ main_i' = main_i + 1
    /\ UNCHANGED <<config, shared, pc, ta_pc, main_pc, destroyed, posts,
                   summoned>>

\* join loop exit, the two closing printf
MainEndJoin ==
    /\ main_pc = "join"
    /\ main_i = NUM_STUDENTS
    /\ main_pc' = "destroy"
    /\ UNCHANGED <<config, shared, pc, ta_pc, main_i, destroyed, posts,
                   summoned>>

\* the four sem_destroy and pthread_mutex_destroy; the values are left as
\* they are, a thread blocked in sem_wait stays blocked
MainDestroy ==
    /\ main_pc = "destroy"
    /\ destroyed' = TRUE
    /\ main_pc' = "return"
    /\ UNCHANGED <<config, shared, pc, ta_pc, main_i, posts, summoned>>

\* return 0: the process ends
MainReturn ==
    /\ main_pc = "return"
    /\ main_pc' = "exited"
    /\ UNCHANGED <<config, shared, pc, ta_pc, main_i, destroyed, posts,
                   summoned>>

MainStep ==
    \/ MainCreateTa
    \/ MainCreateStudent
    \/ MainEndCreate
    \/ MainJoin
    \/ MainEndJoin
    \/ MainDestroy
    \/ MainReturn

----------------------------------------------------------------------------
Next ==
    \/ MainStep
    \/ TaStep
    \/ \E s \in Students : StudentStep(s)

Spec == Init /\ [][Next]_vars

\* Every thread that can run is eventually scheduled.
FairSpec ==
    /\ Spec
    /\ WF_vars(MainStep)
    /\ WF_vars(TaStep)
    /\ \A s \in 1..MaxStudents : WF_vars(s \in Students /\ StudentStep(s))

----------------------------------------------------------------------------
\* Derived quantities used by the properties

AllTerminated == \A s \in Students : pc[s] \in Terminal

NumInConsultation == Cardinality({s \in Students : InConsultation(s)})

NumHoldingChair == Cardinality({s \in Students : HoldsChair(s)})

NumServed == Cardinality({s \in Students : pc[s] = "served"})

NumBalked == Cardinality({s \in Students : pc[s] = "balked"})

JoinCompleted == main_pc \in {"destroy", "return", "exited"}

----------------------------------------------------------------------------
\* C1: at most one student is between the return of its summon wait and the
\* return of its completion wait, in every reachable state (in particular
\* while the TA is in its help step).
C1_AtMostOneInConsultation == NumInConsultation <= 1

\* C2: students consume completion units in exactly the order in which they
\* consumed summon units: the student whose completion wait returns is always
\* the oldest summoned student that has not yet consumed a completion.
C2_NoCrossSignal ==
    [][\A s \in Students :
         (pc[s] = "wait_completion" /\ pc'[s] = "served") => s = Head(summoned)]_vars

\* C3: under fair scheduling every student thread terminates, as Served
\* (its completion wait returned) or as Balked (its admission test failed),
\* and the join loop of main completes.
C3_EveryStudentTerminates == <>(AllTerminated /\ JoinCompleted)

C3_Witness ==
    /\ NUM_STUDENTS = MaxStudents
    /\ AllTerminated
    /\ JoinCompleted
    /\ NumServed >= 1
    /\ NumBalked >= 1

\* C4: the admission counter stays within 0..MAX_CHAIRS in every reachable state.
C4_OccupiedInRange ==
    /\ 0 <= num_students_in_chairs
    /\ num_students_in_chairs <= MAX_CHAIRS

\* the counter is at its upper limit while a departing student is about to decrement it
C4_Witness ==
    /\ MAX_CHAIRS >= 2
    /\ num_students_in_chairs = MAX_CHAIRS
    /\ \E s \in Students : pc[s] = "dec"

\* C5: the number of students holding a chair (chair wait returned, chair
\* post not yet executed) never exceeds MAX_CHAIRS; the chair semaphore
\* accounts for exactly the chairs that are not held.
C5_ChairsHeldBounded ==
    /\ NumHoldingChair <= MAX_CHAIRS
    /\ NumHoldingChair + waiting_room_chairs_sem = MAX_CHAIRS

\* every chair is held, by students waiting for the summon and by a summoned one
C5_Witness ==
    /\ MAX_CHAIRS >= 2
    /\ NumHoldingChair = MAX_CHAIRS
    /\ \E s \in Students : pc[s] = "wait_summon"
    /\ \E s \in Students : pc[s] = "post_chairs"

\* C6: signal conservation: completion posts <= summon posts <= presence
\* units taken by the TA <= presence posts; the TA posts one summon and then
\* one completion per presence unit taken, and waits for the next presence
\* only when summon posts equal completion posts; when all students have
\* terminated and the TA is back at its presence wait, the three counts agree.
C6_SignalConservation ==
    /\ posts.completion <= posts.summon
    /\ posts.summon <= posts.taken
    /\ posts.taken <= posts.presence
    /\ posts.summon - posts.completion \in {0, 1}
    /\ posts.taken - posts.summon \in {0, 1}
    /\ ta_pc \in {"not_created", "loop", "wait_presence"} =>
         posts.taken = posts.summon /\ posts.summon = posts.completion
    /\ ta_pc = "post_summon" =>
         posts.taken = posts.summon + 1 /\ posts.summon = posts.completion
    /\ ta_pc \in {"help", "post_completion"} =>
         posts.taken = posts.summon /\ posts.summon = posts.completion + 1
    /\ (AllTerminated /\ ta_pc \in {"loop", "wait_presence"}) =>
         posts.presence = posts.summon /\ posts.summon = posts.completion

\* all students terminated after at least two full TA cycles
C6_Witness ==
    /\ AllTerminated
    /\ ta_pc = "wait_presence"
    /\ posts.completion >= 2

\* The student is counted in num_students_in_chairs: it has executed the
\* increment and not yet the decrement.
Counted(t) ==
    pc[t] \in {"take_chair", "unlock1", "post_presence", "wait_summon",
               "post_chairs", "lock2", "dec"}

\* C7 as stated: with one chair and two students, every execution ends with
\* exactly one student Served and the other Balked, and the counter never
\* exceeds 1.
C7_ExactlyOneServedOneBalked ==
    (MAX_CHAIRS = 1 /\ NUM_STUDENTS = 2) =>
        /\ num_students_in_chairs <= 1
        /\ AllTerminated => (NumServed = 1 /\ NumBalked = 1)

\* C7 as amended: with one chair and two students the counter never exceeds
\* 1, at least one student ends Served, and a student's admission test fails
\* exactly when it runs while the other student is counted in the counter
\* (after the other's increment and before its decrement); a student whose
\* test runs after the other's decrement is admitted as well.
C7_BalkOnlyWhileOtherCounted ==
    /\ []((MAX_CHAIRS = 1 /\ NUM_STUDENTS = 2) =>
            /\ num_students_in_chairs <= 1
            /\ NumBalked <= 1
            /\ AllTerminated => NumServed >= 1)
    /\ [][(MAX_CHAIRS = 1 /\ NUM_STUDENTS = 2) =>
            \A s \in Students :
                (pc[s] = "check" /\ pc'[s] # "check") =>
                    /\ pc'[s] = "unlock_balk" <=>
                         \E t \in Students \ {s} : Counted(t)
                    /\ pc'[s] = "take_chair" <=>
                         ~ \E t \in Students \ {s} : Counted(t)]_vars

\* one chair, two students, one served and one turned away
C7_Witness ==
    /\ MAX_CHAIRS = 1
    /\ NUM_STUDENTS = 2
    /\ AllTerminated
    /\ NumServed = 1
    /\ NumBalked = 1

\* C8: the chair semaphore is at least MAX_CHAIRS minus the counter, so the
\* sem_wait on it that an admitted student executes under count_mutex finds
\* a positive value; the holder of count_mutex is never at a blocked
\* operation.
C8_AcquireNeverBlocks ==
    /\ waiting_room_chairs_sem >= MAX_CHAIRS - num_students_in_chairs
    /\ count_mutex \in 0..NUM_STUDENTS
    /\ \A s \in Students :
         /\ pc[s] = "take_chair" => SemCanWait(waiting_room_chairs_sem)
         /\ pc[s] \in {"check", "take_chair", "unlock1", "dec", "unlock2",
                       "unlock_balk"} <=> count_mutex = s

\* the last admission slot was just taken while another student has posted
\* its chair but not yet decremented the counter
C8_Witness ==
    /\ MAX_CHAIRS >= 2
    /\ num_students_in_chairs = MAX_CHAIRS
    /\ \E s \in Students : pc[s] = "take_chair"
    /\ \E s \in Students : pc[s] = "lock2"

\* C9: with at least as many chairs as students no admission test fails and
\* every student that terminates is Served.
C9_NoBalkWhenEnoughChairs ==
    (MAX_CHAIRS >= NUM_STUDENTS) =>
        /\ \A s \in Students :
             /\ pc[s] \notin {"unlock_balk", "balked"}
             /\ pc[s] = "check" => num_students_in_chairs < MAX_CHAIRS
        /\ AllTerminated => NumServed = NUM_STUDENTS

\* as many chairs as students, all served
C9_Witness ==
    /\ NUM_STUDENTS = MaxStudents
    /\ MAX_CHAIRS = NUM_STUDENTS
    /\ AllTerminated
    /\ NumServed = NUM_STUDENTS

\* C10: with no chair every admission test fails, the counter stays 0, no
\* unit is posted on the presence semaphore and the TA never gets past its
\* first wait.
C10_ZeroChairs ==
    (MAX_CHAIRS = 0) =>
        /\ \A s \in Students :
             pc[s] \in {"not_created", "arrive", "lock1", "check",
                        "unlock_balk", "balked"}
        /\ num_students_in_chairs = 0
        /\ waiting_room_chairs_sem = 0
        /\ posts.presence = 0
        /\ student_present_for_ta_sem = 0
        /\ posts.taken = 0
        /\ ta_pc \in {"not_created", "loop", "wait_presence"}

\* no chair, every student turned away
C10_Witness ==
    /\ MAX_CHAIRS = 0
    /\ NUM_STUDENTS = MaxStudents
    /\ AllTerminated
    /\ NumBalked = NUM_STUDENTS
    /\ ta_pc = "wait_presence"

\* The student takes a step of the balk path: its admission test fails, or
\* it unlocks count_mutex after a failed test and exits.
BalkPathStep(s) ==
    \/ pc[s] = "check" /\ pc'[s] = "unlock_balk"
    \/ pc[s] = "unlock_balk" /\ pc'[s] = "balked"

\* C11: a student that balks changes no shared state: its failed admission
\* test and its exit leave the counter and the four semaphore values as they
\* were, and a student that has balked never posted on presence; of the
\* shared objects it only locks and unlocks count_mutex.
C11_BalkChangesNothing ==
    [][\A s \in Students :
         BalkPathStep(s) =>
           /\ num_students_in_chairs' = num_students_in_chairs
           /\ waiting_room_chairs_sem' = waiting_room_chairs_sem
           /\ student_present_for_ta_sem' = student_present_for_ta_sem
           /\ ta_ready_for_student_sem' = ta_ready_for_student_sem
           /\ consultation_finished_sem' = consultation_finished_sem
           /\ posts' = posts
           /\ count_mutex = s
           /\ count_mutex' = IF pc'[s] = "balked" THEN 0 ELSE s]_vars

\* a student has balked while other students are seated and the counter is full
C11_Witness ==
    /\ MAX_CHAIRS >= 1
    /\ num_students_in_chairs = MAX_CHAIRS
    /\ waiting_room_chairs_sem = 0
    /\ \E s \in Students : pc[s] = "balked"

\* The student has been summoned, has posted its chair and has executed its
\* decrement of the counter.
LeftChair(a) == pc[a] \in {"unlock2", "wait_completion", "served"}

\* The student has not yet executed its admission test.
NotYetTested(b) == pc[b] \in {"not_created", "arrive", "lock1", "check"}

\* C12: with one chair and two students A and B, if B runs its admission
\* test only after A was summoned, posted its chair and decremented the
\* counter, then B's test succeeds, and under fair scheduling both A and B
\* end Served.
C12_LateStudentAdmitted ==
    /\ [][(MAX_CHAIRS = 1 /\ NUM_STUDENTS = 2) =>
            \A a, b \in Students :
                (a # b /\ LeftChair(a) /\ pc[b] = "check" /\ pc'[b] # "check")
                    => pc'[b] = "take_chair"]_vars
    /\ (/\ MAX_CHAIRS = 1
        /\ NUM_STUDENTS = 2
        /\ \E a, b \in Students : a # b /\ LeftChair(a) /\ NotYetTested(b))
         ~> (NumServed = 2)

\* B has just passed its admission test after A left the only chair
C12_Witness ==
    /\ MAX_CHAIRS = 1
    /\ NUM_STUDENTS = 2
    /\ \E a, b \in Students :
         a # b /\ pc[a] = "wait_completion" /\ pc[b] = "take_chair"

\* Students whose wait on ta_ready_for_student_sem has returned.
NumPastSummon ==
    Cardinality({s \in Students : InConsultation(s) \/ pc[s] = "served"})

\* C13: the number of students whose summon wait has returned is at most the
\* number of summon posts of the TA, and the number of Served students is at
\* most the number of completion posts; each is exactly the posts minus the
\* units still in the semaphore.
C13_WaitReturnsAfterPost ==
    /\ NumPastSummon <= posts.summon
    /\ NumServed <= posts.completion
    /\ NumPastSummon + ta_ready_for_student_sem = posts.summon
    /\ NumServed + consultation_finished_sem = posts.completion

\* one student served, another in consultation
C13_Witness ==
    /\ NumServed >= 1
    /\ NumInConsultation >= 1
    /\ posts.summon >= 2

\* C14: the summon and completion semaphores never hold more than one unit.
C14_OneSlotChannels ==
    /\ ta_ready_for_student_sem <= 1
    /\ consultation_finished_sem <= 1

\* The student is between pthread_mutex_lock and pthread_mutex_unlock.
InCriticalSection(s) ==
    pc[s] \in {"check", "take_chair", "unlock1", "dec", "unlock2",
               "unlock_balk"}

\* C15: at most one student is inside a count_mutex critical section; the
\* counter changes only by a step of the student that holds count_mutex
\* (its admission test with increment, or its decrement); an admission
\* commits only from a counter value below MAX_CHAIRS, so once a student has
\* committed the last slot no other commits until a decrement.
C15_CounterUnderMutex ==
    /\ [](Cardinality({s \in Students : InCriticalSection(s)}) <= 1)
    /\ [][num_students_in_chairs' # num_students_in_chairs =>
            \E s \in Students :
                /\ count_mutex = s
                /\ pc[s] \in {"check", "dec"}
                /\ pc'[s] # pc[s]
                /\ \A t \in Students \ {s} : pc'[t] = pc[t]]_vars
    /\ [][\A s \in Students :
            (pc[s] = "check" /\ pc'[s] = "take_chair") =>
                /\ count_mutex = s
                /\ num_students_in_chairs < MAX_CHAIRS
                /\ num_students_in_chairs' = num_students_in_chairs + 1
                /\ num_students_in_chairs' <= MAX_CHAIRS]_vars

\* one student has just committed the last admission slot while another is
\* blocked on count_mutex
C15_Witness ==
    /\ MAX_CHAIRS >= 2
    /\ num_students_in_chairs = MAX_CHAIRS
    /\ \E s, t \in Students :
         s # t /\ pc[s] = "take_chair" /\ pc[t] = "lock1" /\ count_mutex = s

\* C16: a student vacates its chair on being summoned, not on completion:
\* the chairs missing from waiting_room_chairs_sem are exactly those of the
\* students between their chair wait and their chair post (which includes
\* every student blocked on the summon semaphore), the counter counts
\* exactly the students between increment and decrement, and a student
\* blocked on the completion semaphore is in neither set.
C16_ChairVacatedOnSummon ==
    /\ MAX_CHAIRS - waiting_room_chairs_sem =
         Cardinality({s \in Students : HoldsChair(s)})
    /\ num_students_in_chairs = Cardinality({s \in Students : Counted(s)})
    /\ \A s \in Students :
         /\ pc[s] = "wait_summon" => HoldsChair(s) /\ Counted(s)
         /\ pc[s] = "wait_completion" => ~HoldsChair(s) /\ ~Counted(s)
    /\ Cardinality({s \in Students : pc[s] = "wait_summon"})
         <= MAX_CHAIRS - waiting_room_chairs_sem
    /\ (\A s \in Students :
          pc[s] \in {"not_created", "arrive", "lock1", "wait_completion",
                     "served", "balked"}) =>
         /\ waiting_room_chairs_sem = MAX_CHAIRS
         /\ num_students_in_chairs = 0

\* one student is blocked on completion with its chair given back while
\* another still sits waiting for the summon
C16_Witness ==
    /\ \E s \in Students : pc[s] = "wait_completion"
    /\ Cardinality({s \in Students : pc[s] = "wait_summon"}) = 1
    /\ waiting_room_chairs_sem = MAX_CHAIRS - 1
    /\ num_students_in_chairs = 1
    /\ ta_pc = "help"

NumWaitingForSummon ==
    Cardinality({s \in Students : pc[s] = "wait_summon"})

\* C18: the value of the presence semaphore never exceeds the number of
\* students that hold a chair and wait on the summon semaphore, and so never
\* exceeds MAX_CHAIRS.
C18_PresenceBounded ==
    /\ student_present_for_ta_sem <= NumWaitingForSummon
    /\ NumWaitingForSummon <= MAX_CHAIRS
    /\ student_present_for_ta_sem <= MAX_CHAIRS

\* two seated students have announced themselves while the TA is helping a third
C18_Witness ==
    /\ student_present_for_ta_sem = 2
    /\ NumWaitingForSummon = 2
    /\ ta_pc = "help"
    /\ NumInConsultation = 1

\* C19: no thread operates on a semaphore or on count_mutex after main has
\* destroyed it: main destroys them only when every student thread has
\* exited, and once they are destroyed the TA thread enters or completes no
\* sem_wait and no sem_post.
C19_NoUseAfterDestroy ==
    /\ [](destroyed => AllTerminated /\ JoinCompleted)
    /\ [][destroyed => ta_pc' = ta_pc]_vars

====
